---- MODULE Spec2Model ----
(***************************************************************************)
(* dynts: the numpy time-series backend (dynts/backends/np.py) and the     *)
(* backend-independent TimeSeries API (dynts/api/timeseries.py).           *)
(*                                                                         *)
(* A store is a Numpy time series: a key array _date, a value matrix       *)
(* _data and an ordered key index _skl.  numpy arrays are objects on a     *)
(* heap, so two stores may hold the same array (asarray returns an ndarray *)
(* unchanged) or a slice view of it; the heap is modelled explicitly.      *)
(***************************************************************************)
EXTENDS Integers, Sequences, FiniteSets, TLC

VARIABLES
    dateHeap,   \* the key arrays (_date) on the heap
    dataHeap,   \* the value matrices (_data) on the heap
    st,         \* per store: the arrays it holds and its index _skl
    last,       \* the last call made and the exception it raised
    calls,      \* history: how each store came to its content
    log,        \* history: per key, the row last inserted into a store that
                \* was created empty and has had only insert calls since
    args,       \* pure calls: the series and parameters of the call
    ret,        \* pure calls: what the call returned or raised
    algorithms, \* TimeSeries._algorithms, the registry shared by all series
    registered, \* history: the callable last registered per (operation, name)
    backend     \* the class of the series, which fixes the conversion hooks

vars ==
    <<dateHeap, dataHeap, st, last, calls, log, args, ret, algorithms,
      registered, backend>>

---------------------------------------------------------------------------
(* Bounds and value domains *)

MaxKey == 3

Keys == 1..MaxKey

Vals == {1, 2}

\* one-column rows of the stores of the store specification
Rows == {<<v>> : v \in Vals}

Stores == {"s", "t"}

\* one buffer per store and kind of array is enough: each store holds at most
\* one key array and one value matrix
BufIds == {1, 2}

\* None: the _date / _data of an empty store
NoBuf == 0

NoData == [buf |-> NoBuf, off |-> 0, len |-> 0, view |-> FALSE]

\* ndarray.resize fills the entries it adds with zeros
ZeroKey == 0

ZeroRow == <<0>>

Other(x) == IF x = "s" THEN "t" ELSE "s"

Min(a, b) == IF a < b THEN a ELSE b

Max(a, b) == IF a > b THEN a ELSE b

SetMin(S) == CHOOSE m \in S : \A o \in S : m <= o

RECURSIVE SortedSeq(_)
\* sorted(S): the elements of a set of integers in ascending order
SortedSeq(S) ==
    IF S = {} THEN <<>>
    ELSE LET m == SetMin(S) IN <<m>> \o SortedSeq(S \ {m})

Range(q) == {q[i] : i \in 1..Len(q)}

StrictlyIncreasing(q) == \A i \in 1..Len(q) - 1 : q[i] < q[i + 1]

---------------------------------------------------------------------------
(* Date conversion hooks.  TimeSeries and Numpy keep a date as its own key; *)
(* a backend may override the two hooks, as "Shifted" does, whose key is   *)
(* the date plus one.                                                      *)

Backends == {"Numpy", "Shifted"}

\* date -> key
dateconvert(dte) == IF backend = "Numpy" THEN dte ELSE dte + 1

\* key -> date
dateinverse(key) == IF backend = "Numpy" THEN key ELSE key - 1

\* the class state of a run that registers nothing and uses the hooks of
\* TimeSeries: _algorithms = {}
ClassIdle ==
    /\ algorithms = {}
    /\ registered = {}
    /\ backend = "Numpy"

---------------------------------------------------------------------------
(* Python sequence slicing a[lo:hi] *)

SliceIndex(i, n) == IF i < 0 THEN Max(i + n, 0) ELSE Min(i, n)

\* the half-open index interval <<a, b>> (0-based) that a[lo:hi] selects
SliceBounds(n, lo, hi) ==
    LET a == SliceIndex(lo, n)
        b == SliceIndex(hi, n)
    IN  IF a >= b THEN <<a, a>> ELSE <<a, b>>

PySlice(q, lo, hi) ==
    LET ab == SliceBounds(Len(q), lo, hi)
    IN  SubSeq(q, ab[1] + 1, ab[2])

---------------------------------------------------------------------------
(* OrderedKeyIndex (dynts.lib.Skiplist): a sorted key set *)

\* Skiplist(data)
Skiplist(data) == SortedSeq(Range(data))

\* skl.insert(key)
SklInsert(skl, key) == SortedSeq(Range(skl) \cup {key})

\* skl.rank(key): the 0-based index of key, or -(insertion index) - 1
SklRank(skl, key) ==
    LET below == Cardinality({i \in 1..Len(skl) : skl[i] < key})
    IN  IF key \in Range(skl) THEN below ELSE -below - 1

\* asbtree(ts).find_ge(dt): smallest index with key >= dt, len when none
find_ge(dates, dt) ==
    LET ok == {i \in 1..Len(dates) : dates[i] >= dt}
    IN  IF ok = {} THEN Len(dates) ELSE SetMin(ok) - 1

\* asbtree(ts).find_le(dt): largest index with key <= dt, -1 when none
find_le(dates, dt) ==
    LET ok == {i \in 1..Len(dates) : dates[i] <= dt}
    IN  IF ok = {} THEN -1 ELSE (CHOOSE m \in ok : \A o \in ok : o <= m) - 1

---------------------------------------------------------------------------
(* The heap of ndarray buffers and the stores that hold them.              *)
(* A world w is [dh, vh, st]: date buffers, value buffers, and per store   *)
(* its _date (a buffer id), _data (a buffer id, or a slice view of one)    *)
(* and _skl.                                                               *)

World == [dh |-> dateHeap, vh |-> dataHeap, st |-> st]

EmptyStore == [date |-> NoBuf, data |-> NoData, skl |-> <<>>]

\* Numpy.dates(): self._date, or () when it is None
Dates(w, x) ==
    IF w.st[x].date = NoBuf THEN <<>> ELSE w.dh[w.st[x].date]

\* Numpy.values(): self._data, or () when it is None
Values(w, x) ==
    LET d == w.st[x].data
    IN  IF d.buf = NoBuf THEN <<>>
        ELSE IF d.view THEN SubSeq(w.vh[d.buf], d.off + 1, d.off + d.len)
        ELSE w.vh[d.buf]

\* len(self): shape[0] of _data, 0 when _data is None
StoreLen(w, x) == Len(Values(w, x))

\* a buffer id no other store holds, for a newly allocated array
FreshDateBuf(w, x) == SetMin({i \in BufIds : w.st[Other(x)].date # i})

FreshDataBuf(w, x) == SetMin({i \in BufIds : w.st[Other(x)].data.buf # i})

\* buffers no store references any more are released
DateLive(w, i) == IF \E x \in Stores : w.st[x].date = i THEN w.dh[i] ELSE <<>>

DataLive(w, i) ==
    IF \E x \in Stores : w.st[x].data.buf = i THEN w.vh[i] ELSE <<>>

Collect(w) ==
    [dh |-> <<DateLive(w, 1), DateLive(w, 2)>>,
     vh |-> <<DataLive(w, 1), DataLive(w, 2)>>,
     st |-> w.st]

\* ndarray.resize in place succeeds only on an array that owns its data and
\* that nothing else references
CanResizeDate(w, x) == w.st[Other(x)].date # w.st[x].date

CanResizeData(w, x) ==
    /\ ~w.st[x].data.view
    /\ w.st[Other(x)].data.buf # w.st[x].data.buf

RECURSIVE Repeat(_, _)
Repeat(v, n) == IF n <= 0 THEN <<>> ELSE <<v>> \o Repeat(v, n - 1)

ResizeSeq(q, n, pad) ==
    IF n <= Len(q) THEN SubSeq(q, 1, n)
    ELSE q \o Repeat(pad, n - Len(q))

---------------------------------------------------------------------------
(* Numpy.make *)

\* An array argument: seq is its content, and ref names the buffer when the
\* argument is an ndarray a store already holds (NoBuf / NoData for a list).
ListArg(q) == [seq |-> q, ref |-> NoBuf, dref |-> NoData]

RECURSIVE InverseAll(_)
\* (c(d) for d in date) with c = self.dateinverse
InverseAll(q) ==
    IF q = <<>> THEN <<>> ELSE <<dateinverse(Head(q))>> \o InverseAll(Tail(q))

Make(w, x, date, data, raw) ==
    LET conv == IF ~raw THEN InverseAll(date.seq) ELSE date.seq
        \* asarray returns an ndarray as it is; a generator becomes a new array
        dateref == IF ~raw THEN NoBuf ELSE date.ref
        skl == Skiplist(conv)
    IN  IF Len(conv) = 0
        THEN [w EXCEPT !.st[x] = [date |-> NoBuf, data |-> NoData, skl |-> skl]]
        ELSE LET di == IF dateref # NoBuf THEN dateref ELSE FreshDateBuf(w, x)
                 newdata == data.dref.buf = NoBuf
                 vd == IF newdata
                       THEN [buf |-> FreshDataBuf(w, x), off |-> 0, len |-> 0,
                             view |-> FALSE]
                       ELSE data.dref
             IN  [dh |-> [w.dh EXCEPT ![di] = conv],
                  vh |-> IF newdata THEN [w.vh EXCEPT ![vd.buf] = data.seq]
                         ELSE w.vh,
                  st |-> [w.st EXCEPT ![x] =
                             [date |-> di, data |-> vd, skl |-> skl]]]

---------------------------------------------------------------------------
(* Numpy.insert *)

\* index < 0: the date is not available
DateAbsent(index) == index < 0

InsertionIndex(index) == -1 - index

\* faulty variant: the entries above the insertion index are not moved
ShiftUpNoMove(q, index) == q

\* a[index+1:] = a[index:-1]
ShiftUp(q, index) ==
    SubSeq(q, 1, index + 1) \o SubSeq(q, index + 1, Len(q) - 1)

\* a[index] = v
SetAt(q, index, v) ==
    SubSeq(q, 1, index) \o <<v>> \o SubSeq(q, index + 2, Len(q))

\* the position in the underlying buffer of row index of store x
DataPos(w, x, index) ==
    IF w.st[x].data.view THEN w.st[x].data.off + index ELSE index

\* faulty variant: self._data[index:] = values
AssignRowFrom(data, pos, values) ==
    SubSeq(data, 1, pos) \o Repeat(values, Len(data) - pos)

\* self._data[index] = values
AssignRow(data, pos, values) == SetAt(data, pos, values)

\* faulty variant: self._skl.insert(dte) only in the else branch of insert
IndexUpdateInElse(wasEmpty, skl, dte) ==
    IF wasEmpty THEN skl ELSE SklInsert(skl, dte)

\* self._skl.insert(dte), the last statement of insert
IndexUpdate(wasEmpty, skl, dte) == SklInsert(skl, dte)

\* self._date[index] = dte; self._data[index] = values; self._skl.insert(dte)
WriteRow(w, x, index, dte, values, wasEmpty) ==
    IF index >= Len(Dates(w, x)) THEN [w |-> w, exc |-> "IndexError"]
    ELSE LET w1 == [w EXCEPT !.dh[w.st[x].date] = SetAt(@, index, dte)]
         IN  IF index >= StoreLen(w1, x) THEN [w |-> w1, exc |-> "IndexError"]
             ELSE [w |-> [w1 EXCEPT
                            !.vh[w.st[x].data.buf] =
                                AssignRow(@, DataPos(w, x, index), values),
                            !.st[x].skl = IndexUpdate(wasEmpty, @, dte)],
                   exc |-> "none"]

Insert(w, x, dte0, values) ==
    LET dte == dateconvert(dte0)
    IN  IF StoreLen(w, x) = 0
        THEN LET di == FreshDateBuf(w, x)
                 vi == FreshDataBuf(w, x)
             IN  [w |-> [dh |-> [w.dh EXCEPT ![di] = <<dte>>],
                         vh |-> [w.vh EXCEPT ![vi] = <<values>>],
                         st |-> [w.st EXCEPT ![x] =
                                   [date |-> di,
                                    data |-> [buf |-> vi, off |-> 0, len |-> 0,
                                              view |-> FALSE],
                                    skl |-> IndexUpdate(TRUE, @.skl, dte)]]],
                  exc |-> "none"]
        ELSE LET index0 == SklRank(w.st[x].skl, dte)
             IN  IF DateAbsent(index0)
                 THEN LET N == StoreLen(w, x)
                          index == InsertionIndex(index0)
                      IN  IF Len(Dates(w, x)) # N + 1 /\ ~CanResizeDate(w, x)
                          THEN [w |-> w, exc |-> "ValueError"]
                          ELSE LET w1 == [w EXCEPT !.dh[w.st[x].date] =
                                              ResizeSeq(@, N + 1, ZeroKey)]
                               IN  IF ~CanResizeData(w, x)
                                   THEN [w |-> w1, exc |-> "ValueError"]
                                   ELSE LET w2 == [w1 EXCEPT
                                                     !.vh[w.st[x].data.buf] =
                                                        ResizeSeq(@, N + 1, ZeroRow)]
                                            w3 == IF index < N
                                                  THEN [w2 EXCEPT
                                                     !.dh[w.st[x].date] =
                                                        ShiftUp(@, index),
                                                     !.vh[w.st[x].data.buf] =
                                                        ShiftUp(@, index)]
                                                  ELSE w2
                                        IN  WriteRow(w3, x, index, dte, values,
                                                     FALSE)
                 ELSE WriteRow(w, x, index0, dte, values, FALSE)

---------------------------------------------------------------------------
(* TimeSeries.clone and Numpy.window *)

\* an ndarray a store holds, passed on as an argument
DateArrayArg(w, x) == [seq |-> Dates(w, x), ref |-> w.st[x].date, dref |-> NoData]

DataArrayArg(w, x) == [seq |-> Values(w, x), ref |-> NoBuf, dref |-> w.st[x].data]

\* ts = self.__class__(name) is a new, empty series; it becomes store dst
Clone(w, src, dst, date, data, hasDate) ==
    LET w0 == [w EXCEPT !.st[dst] = EmptyStore]
    IN  IF ~hasDate
        THEN Make(w0, dst, DateArrayArg(w, src), data, TRUE)
        ELSE Make(w0, dst, date, data, FALSE)

\* faulty variant: the slice i1:i2
WindowSliceOpenEnd(dates, start, end) ==
    <<find_ge(dates, start), find_le(dates, end)>>

\* the slice i1:i2+1 that window takes of _date and of _data
WindowSlice(dates, start, end) ==
    <<find_ge(dates, start), find_le(dates, end) + 1>>

Window(w, src, dst, start, end) ==
    IF w.st[src].date = NoBuf
    THEN [w |-> w, exc |-> "TypeError"]
    ELSE LET dates == Dates(w, src)
             sl == WindowSlice(dates, start, end)
             d == w.st[src].data
             vb == SliceBounds(StoreLen(w, src), sl[1], sl[2])
             base == IF d.view THEN d.off ELSE 0
             \* a slice of an ndarray is a view of its buffer
             view == [buf |-> d.buf, off |-> base + vb[1],
                      len |-> vb[2] - vb[1], view |-> TRUE]
         IN  [w |-> Clone(w, src, dst,
                          ListArg(PySlice(dates, sl[1], sl[2])),
                          [seq |-> PySlice(Values(w, src), sl[1], sl[2]),
                           ref |-> NoBuf, dref |-> view],
                          TRUE),
              exc |-> "none"]

---------------------------------------------------------------------------
(* The store specification: two series, s and the series t derived from it *)

RECURSIVE RowSeqs(_)
\* the sequences of n rows
RowSeqs(n) ==
    IF n = 0 THEN {<<>>}
    ELSE {<<r>> \o q : r \in Rows, q \in RowSeqs(n - 1)}

\* the (keys, rows) pairs of strictly increasing keys a store is built from
ConsistentInputs ==
    UNION {{[keys |-> SortedSeq(K), rows |-> rows] :
               rows \in RowSeqs(Cardinality(K))} : K \in SUBSET Keys}

IncreasingKeySeqs(n) ==
    {SortedSeq(K) : K \in {S \in SUBSET Keys : Cardinality(S) = n}}

Call(op, x, exc) == [op |-> op, x |-> x, exc |-> exc]

Commit(w) ==
    LET c == Collect(w)
    IN  /\ dateHeap' = c.dh
        /\ dataHeap' = c.vh
        /\ st' = c.st

NoLog == Repeat(ZeroRow, MaxKey)

WorldNext == [dh |-> dateHeap', vh |-> dataHeap', st |-> st']

DerivedLog == [s |-> NoLog, t |-> NoLog]

NoCall == [op |-> "none"]

NoReturn == [status |-> "none"]

EmptyWorld ==
    [dh |-> <<<<>>, <<>>>>,
     vh |-> <<<<>>, <<>>>>,
     st |-> [s |-> EmptyStore, t |-> EmptyStore]]

\* s = Numpy(date=keys, data=rows): TimeSeries.__init__ calls make on the
\* lists it is given; t = Numpy() is empty
Init ==
    /\ ClassIdle
    /\ \E in \in ConsistentInputs :
            LET w == Collect(Make(EmptyWorld, "s", ListArg(in.keys),
                                  ListArg(in.rows), FALSE))
            IN  /\ dateHeap = w.dh
                /\ dataHeap = w.vh
                /\ st = w.st
                /\ last = Call("make", "s", "none")
                /\ calls = [s |-> IF Len(in.keys) > 0 THEN "make" ELSE "inserts",
                            t |-> "inserts"]
                /\ log = [s |-> NoLog, t |-> NoLog]
                /\ args = NoCall
                /\ ret = NoReturn

\* the branch of insert that a call takes
InsertBranch(w, x, dte) ==
    IF StoreLen(w, x) = 0 THEN "first"
    ELSE IF DateAbsent(SklRank(w.st[x].skl, dateconvert(dte))) THEN "new"
    ELSE "overwrite"

\* errors propagate to the caller: the run ends at the first call that raises
Running == last.exc = "none"

\* t holds an array that s holds too (the same array, or a view of it)
Aliased(w) ==
    \/ w.st["t"].date # NoBuf /\ w.st["t"].date = w.st["s"].date
    \/ w.st["t"].data.buf # NoBuf /\ w.st["t"].data.buf = w.st["s"].data.buf

\* x.insert(k, row).  The derived series t is inserted into while it holds an
\* array of s; a series that holds none behaves as s does on its own.
InsertCall(x, k, row) ==
    LET r == Insert(World, x, k, row)
    IN  /\ Running
        /\ x = "t" => Aliased(World)
        /\ Commit(r.w)
        /\ last' = Call(InsertBranch(World, x, k), x, r.exc)
        /\ calls' = calls
        /\ log' = IF r.exc = "none" /\ calls[x] = "inserts"
                  THEN [log EXCEPT ![x] = SetAt(@, k - 1, row)]
                  ELSE log
        /\ UNCHANGED <<args, ret, algorithms, registered, backend>>

InsertRow == \E x \in Stores, k \in Keys, row \in Rows : InsertCall(x, k, row)

\* t = s.clone()
CloneStore ==
    /\ Running
    /\ Commit(Clone(World, "s", "t", ListArg(<<>>), DataArrayArg(World, "s"),
                    FALSE))
    /\ last' = Call("clone", "t", "none")
    /\ calls' = [s |-> "shared", t |-> "shared"]
    /\ log' = DerivedLog
    /\ UNCHANGED <<args, ret, algorithms, registered, backend>>

\* t = s.clone(date=keys)
CloneDates ==
    \E keys \in IncreasingKeySeqs(StoreLen(World, "s")) :
        /\ Running
        /\ Commit(Clone(World, "s", "t", ListArg(keys),
                        DataArrayArg(World, "s"), TRUE))
        /\ last' = Call("clone", "t", "none")
        /\ calls' = [s |-> "shared", t |-> "shared"]
        /\ log' = DerivedLog
        /\ UNCHANGED <<args, ret, algorithms, registered, backend>>

\* t = s.clone(data=rows)
CloneValues ==
    \E rows \in RowSeqs(Len(Dates(World, "s"))) :
        /\ Running
        /\ Commit(Clone(World, "s", "t", ListArg(<<>>), ListArg(rows), FALSE))
        /\ last' = Call("clone", "t", "none")
        /\ calls' = [s |-> "shared", t |-> "shared"]
        /\ log' = DerivedLog
        /\ UNCHANGED <<args, ret, algorithms, registered, backend>>

\* t = s.window(start, end)
WindowCall(start, end) ==
    LET r == Window(World, "s", "t", start, end)
    IN  /\ Running
        /\ Commit(r.w)
        /\ last' = Call("window", "t", r.exc)
        /\ calls' = IF r.exc = "none" THEN [s |-> "shared", t |-> "shared"]
                    ELSE calls
        /\ log' = IF r.exc = "none" THEN DerivedLog ELSE log
        /\ UNCHANGED <<args, ret, algorithms, registered, backend>>

WindowStore == \E start \in Keys, end \in Keys : WindowCall(start, end)

Next ==
    \/ InsertRow
    \/ CloneStore
    \/ CloneDates
    \/ CloneValues
    \/ WindowStore

Spec == Init /\ [][Next]_vars

---------------------------------------------------------------------------
(* Claims about insert, the index, clone and window *)

RECURSIVE KeysBetween(_, _, _)
\* the positions of the keys of dates that lie in [start, end], in order
KeysBetween(dates, start, end) ==
    IF dates = <<>> THEN <<>>
    ELSE KeysBetween(SubSeq(dates, 1, Len(dates) - 1), start, end)
         \o (IF start <= dates[Len(dates)] /\ dates[Len(dates)] <= end
             THEN <<Len(dates)>> ELSE <<>>)

RECURSIVE Pick(_, _)
\* the elements of q at the positions pos
Pick(q, pos) ==
    IF pos = <<>> THEN <<>> ELSE <<q[Head(pos)]>> \o Pick(q, Tail(pos))

Position(q, v) == CHOOSE i \in 1..Len(q) : q[i] = v

\* C1: a store created empty that has had only insert calls holds, in
\* strictly ascending order, exactly the distinct keys inserted, each with the
\* row of the last insert made at that key.
C1_InsertOrdering ==
    \A x \in Stores :
        calls[x] = "inserts" =>
            LET inserted == {k \in Keys : log[x][k] # ZeroRow}
                dates == Dates(World, x)
                values == Values(World, x)
            IN  /\ dates = SortedSeq(inserted)
                /\ Len(values) = Len(dates)
                /\ \A i \in 1..Len(dates) : values[i] = log[x][dates[i]]

\* three keys inserted out of order, then one of them inserted again
C1_Witness ==
    /\ calls["s"] = "inserts"
    /\ last.op = "overwrite"
    /\ Len(Dates(World, "s")) >= 3
    /\ \E i \in 1..3 : Values(World, "s")[i] # Values(World, "s")[1]

\* C2: after make and insert calls on one store the ordered index holds
\* the keys of the key array, as many entries and each key once, and the rank
\* of every stored key is its position in dates().
C2_IndexInLockstep ==
    \A x \in Stores :
        calls[x] \in {"inserts", "make"} =>
            LET dates == Dates(World, x)
                skl == st[x].skl
            IN  /\ Len(skl) = Len(dates)
                /\ Range(skl) = Range(dates)
                /\ Cardinality(Range(skl)) = Len(skl)
                /\ \A i \in 1..Len(dates) : SklRank(skl, dates[i]) = i - 1

\* a store built by make, a key added to it, and then a present key inserted
C2_Witness ==
    /\ calls["s"] = "make"
    /\ last.op = "overwrite"
    /\ Len(Dates(World, "s")) >= 3

\* C3: insert at a key the store already holds replaces that key's row and
\* leaves the length, the key sequence and every other row as they were.
C3_InsertOverwrite ==
    [][\A x \in Stores, k \in Keys, row \in Rows :
          (/\ InsertCall(x, k, row)
           /\ StoreLen(World, x) > 0
           /\ k \in Range(Dates(World, x)))
          => LET i == Position(Dates(World, x), k)
             IN  /\ last'.exc = "none"
                 /\ Dates(WorldNext, x) = Dates(World, x)
                 /\ Len(Values(WorldNext, x)) = Len(Values(World, x))
                 /\ Values(WorldNext, x)[i] = row
                 /\ \A j \in 1..Len(Values(World, x)) :
                        j # i => Values(WorldNext, x)[j] = Values(World, x)[j]
      ]_vars

\* an overwrite in a store of several rows
C3_Witness ==
    /\ last.op = "overwrite"
    /\ last.exc = "none"
    /\ Len(Dates(World, last.x)) >= 2

\* C4: an insert on a store changes neither the dates nor the values of the
\* other store, which was cloned or windowed from it (or is its source).
C4_CloneIndependent ==
    [][\A x \in Stores, k \in Keys, row \in Rows :
          InsertCall(x, k, row)
          => /\ Dates(WorldNext, Other(x)) = Dates(World, Other(x))
             /\ Values(WorldNext, Other(x)) = Values(World, Other(x))
      ]_vars

---------------------------------------------------------------------------
(* Series as values.  merge and clean read series and build a new one; a   *)
(* series is here its key sequence and its rows.                           *)

\* nan = np.nan; v == v is false exactly for nan
NaN == -1

IsNaN(v) == v = NaN

\* count(): shape[1], and shape is (0, 0) when the series has no data
Count(ts) == IF ts.rows = <<>> THEN 0 ELSE Len(ts.rows[1])

RECURSIVE SeqsOf(_, _)
\* the sequences of n elements of R
SeqsOf(R, n) ==
    IF n = 0 THEN {<<>>}
    ELSE {<<r>> \o q : r \in R, q \in SeqsOf(R, n - 1)}

\* the consistent series with keys among K and rows among R
SeriesOver(K, R) ==
    UNION {{[keys |-> SortedSeq(S), rows |-> q] : q \in SeqsOf(R, Cardinality(S))}
           : S \in SUBSET K}

\* a Python dict, as the set of its (key, value) items
DictKeys(d) == {p[1] : p \in d}

DictGet(d, k, default) ==
    IF k \in DictKeys(d) THEN (CHOOSE p \in d : p[1] = k)[2] ELSE default

DictSet(d, k, v) == {p \in d : p[1] # k} \cup {<<k, v>>}

RECURSIVE DictOf(_, _)
\* the dict filled item by item from keys and values
DictOf(keys, values) ==
    IF keys = <<>> \/ values = <<>> THEN {}
    ELSE DictSet(DictOf(SubSeq(keys, 1, Len(keys) - 1),
                        SubSeq(values, 1, Len(keys) - 1)),
                 keys[Len(keys)], values[Len(keys)])

RECURSIVE DictValues(_, _)
DictValues(d, keys) ==
    IF keys = <<>> THEN <<>>
    ELSE <<DictGet(d, Head(keys), <<>>)>> \o DictValues(d, Tail(keys))

---------------------------------------------------------------------------
(* Numpy.merge *)

\* ashash(ts): the hash-table view of a series
ashash(ts) == DictOf(ts.keys, ts.rows)

\* hash.getts(): the series of the hash's items, in ascending key order
getts(hash) ==
    LET keys == SortedSeq(DictKeys(hash))
    IN  [keys |-> keys, rows |-> DictValues(hash, keys)]

\* faulty variant: one fill value whatever the series' column count
FillRowSingle(fill, ts) == <<fill>>

\* np.array([fill]*ts.count())
FillRow(fill, ts) == Repeat(fill, Count(ts))

RECURSIVE OtherHashes(_, _)
\* thashes.append((ts.ashash(), np.array([fill]*ts.count()))) for ts in tserie
OtherHashes(tserie, fill) ==
    IF tserie = <<>> THEN <<>>
    ELSE <<[h |-> ashash(Head(tserie)), ln |-> FillRow(fill, Head(tserie))]>>
         \o OtherHashes(Tail(tserie), fill)

RECURSIVE AllDates(_)
\* alldates = alldates.union(ts.dates()) for ts in tserie
AllDates(tserie) ==
    IF tserie = <<>> THEN {}
    ELSE Range(Head(tserie).keys) \cup AllDates(Tail(tserie))

RECURSIVE StackRow(_, _)
\* mdt(dt): stack((h.get(dt, ln) for h, ln in thashes))
StackRow(thashes, dt) ==
    IF thashes = <<>> THEN <<>>
    ELSE DictGet(Head(thashes).h, dt, Head(thashes).ln)
         \o StackRow(Tail(thashes), dt)

RECURSIVE MergeLoop(_, _, _, _)
\* for dt in alldates: hash[dt] = mdt(dt).  The first entry of thashes is the
\* very hash the loop writes to.
MergeLoop(hash, selfln, others, todo) ==
    IF todo = {} THEN hash
    ELSE LET dt == SetMin(todo)
             row == StackRow(<<[h |-> hash, ln |-> selfln]>> \o others, dt)
         IN  MergeLoop(DictSet(hash, dt, row), selfln, others, todo \ {dt})

Merge(self, tserie, fill) ==
    LET alldates == Range(self.keys) \cup AllDates(tserie)
    IN  getts(MergeLoop(ashash(self), FillRow(fill, self),
                        OtherHashes(tserie, fill), alldates))

---------------------------------------------------------------------------
(* The merge specification: one call of merge on series drawn from bounded *)
(* sets: a one-column series merged with a two-column series and,          *)
(* optionally, a further one-column series.                                *)

MergeMaxKey == 2

MergeKeys == 1..MergeMaxKey

TwoColRows == {<<1, 2>>, <<2, 1>>}

MergeArgs ==
    {[op |-> "merge", self |-> a, tserie |-> ts, fill |-> f] :
        a \in SeriesOver(MergeKeys, Rows),
        ts \in {<<b>> : b \in SeriesOver(MergeKeys, TwoColRows)}
               \cup {<<b, c>> : b \in SeriesOver(MergeKeys, TwoColRows),
                                c \in SeriesOver(MergeKeys, Rows)},
        f \in {NaN, 0}}

StoreIdle ==
    /\ dateHeap = EmptyWorld.dh
    /\ dataHeap = EmptyWorld.vh
    /\ st = EmptyWorld.st
    /\ last = Call("none", "s", "none")
    /\ calls = [s |-> "inserts", t |-> "inserts"]
    /\ log = [s |-> NoLog, t |-> NoLog]

InitMerge ==
    /\ StoreIdle
    /\ ClassIdle
    /\ args \in MergeArgs
    /\ ret = NoReturn

\* self.merge(tserie, fill)
DoMerge ==
    /\ args.op = "merge"
    /\ ret.status = "none"
    /\ ret' = [status |-> "ok", ts |-> Merge(args.self, args.tserie, args.fill)]
    /\ UNCHANGED <<dateHeap, dataHeap, st, last, calls, log, args>>
    /\ UNCHANGED <<algorithms, registered, backend>>

NextMerge == DoMerge

SpecMerge == InitMerge /\ [][NextMerge]_vars

RECURSIVE ObservedOrFill(_, _, _)
\* per source, in order: its row at key k, or fill once per column of it
ObservedOrFill(sources, k, fill) ==
    IF sources = <<>> THEN <<>>
    ELSE LET src == Head(sources)
         IN  (IF k \in Range(src.keys)
              THEN src.rows[Position(src.keys, k)]
              ELSE Repeat(fill, Count(src)))
             \o ObservedOrFill(Tail(sources), k, fill)

\* C6: merge returns the series over the union of the sources' keys whose
\* row at each key is, source by source in argument order, the source's row
\* at that key or fill repeated for the source's column count; two sources
\* with disjoint keys give len(a) + len(b) rows.
C6_MergeFill ==
    (args.op = "merge" /\ ret.status = "ok") =>
        LET sources == <<args.self>> \o args.tserie
            union == UNION {Range(sources[i].keys) : i \in 1..Len(sources)}
            res == ret.ts
        IN  /\ res.keys = SortedSeq(union)
            /\ Len(res.rows) = Len(res.keys)
            /\ \A i \in 1..Len(res.keys) :
                   res.rows[i] = ObservedOrFill(sources, res.keys[i], args.fill)
            /\ (Len(args.tserie) = 1
                /\ Range(args.self.keys) \cap Range(args.tserie[1].keys) = {})
               => Len(res.keys) = Len(args.self.keys) + Len(args.tserie[1].keys)

\* three sources merged, with a key only the first holds and a key only the
\* two-column source holds
C6_Witness ==
    /\ args.op = "merge"
    /\ ret.status = "ok"
    /\ Len(args.tserie) = 2
    /\ Range(args.self.keys) \ Range(args.tserie[1].keys) # {}
    /\ Range(args.tserie[1].keys) \ Range(args.self.keys) # {}
    /\ Len(ret.ts.keys) = Cardinality(MergeKeys)

---------------------------------------------------------------------------
(* TimeSeries.clean *)

\* Python's None
None == 0

\* a local name of clean that no statement has bound yet
Unbound == "unbound"

RECURSIVE Column(_, _)
\* data[:,c], one of the series that self.series() yields
Column(rows, c) ==
    IF rows = <<>> THEN <<>> ELSE <<Head(rows)[c]>> \o Column(Tail(rows), c)

RECURSIVE Firsts(_)
Firsts(pairs) ==
    IF pairs = <<>> THEN <<>> ELSE <<Head(pairs)[1]>> \o Firsts(Tail(pairs))

RECURSIVE Seconds(_)
Seconds(pairs) ==
    IF pairs = <<>> THEN <<>> ELSE <<Head(pairs)[2]>> \o Seconds(Tail(pairs))

RECURSIVE CarryForward(_, _)
CarryForward(vend, missings) ==
    IF missings = <<>> THEN <<>>
    ELSE <<<<Head(missings)[1], vend>>>> \o CarryForward(vend, Tail(missings))

\* algorithm(dend, vend, d, v, missings): the pairs the caller's algorithm
\* yields.  "ffill" yields, for each buffered key, the last valid value;
\* "drop" yields nothing.
Algorithm(algorithm, dend, vend, d, v, missings) ==
    IF algorithm = "ffill" THEN CarryForward(vend, missings) ELSE <<>>

\* the locals of clean at the start of a column's loop; dt is bound only by
\* the loop over sorted(all_dates) that follows the column loops
NewColumn ==
    [dstart |-> None, dend |-> None, vend |-> None,
     new_dates |-> <<>>, new_values |-> <<>>, missings |-> <<>>,
     values |-> {}, dt |-> Unbound, exc |-> "none"]

\* the body of  for d, v in zip(original_dates, serie)
Observe(c, d, v, algorithm) ==
    IF c.exc # "none" THEN c
    ELSE IF ~IsNaN(v)
    THEN LET yields == IF c.missings # <<>>
                       THEN Algorithm(algorithm, c.dend, c.vend, d, v, c.missings)
                       ELSE <<>>
         IN  [dstart |-> IF c.dstart = None THEN d ELSE c.dstart,
              dend |-> d,
              vend |-> v,
              new_dates |-> c.new_dates \o Firsts(yields),
              new_values |-> c.new_values \o Seconds(yields),
              missings |-> <<>>,
              values |-> DictSet(c.values, d, v),
              dt |-> c.dt,
              exc |-> "none"]
    ELSE IF c.dstart # None /\ algorithm # "none"
    THEN \* missings.append((dt, v))
         IF c.dt = Unbound
         THEN [c EXCEPT !.exc = "UnboundLocalError"]
         ELSE [c EXCEPT !.missings = @ \o <<<<c.dt, v>>>>]
    ELSE c

RECURSIVE ObserveAll(_, _, _, _)
ObserveAll(c, dates, serie, algorithm) ==
    IF dates = <<>> \/ serie = <<>> THEN c
    ELSE ObserveAll(Observe(c, Head(dates), Head(serie), algorithm),
                    Tail(dates), Tail(serie), algorithm)

\* if missings: after the loop, with no observation after the run
Trailing(c, algorithm) ==
    IF c.exc # "none" \/ c.missings = <<>> THEN c
    ELSE LET yields == Algorithm(algorithm, c.dend, c.vend, None, None, c.missings)
         IN  [c EXCEPT !.new_dates = @ \o Firsts(yields),
                       !.new_values = @ \o Seconds(yields),
                       !.dend = IF yields = <<>> THEN @
                                ELSE yields[Len(yields)][1]]

\* one pass of  for serie in self.series()
CleanColumn(dates, serie, algorithm) ==
    Trailing(ObserveAll(NewColumn, dates, serie, algorithm), algorithm)

RECURSIVE CleanColumns(_, _, _, _)
\* the columns c..n, in order
CleanColumns(dates, rows, c, algorithm) ==
    IF rows = <<>> \/ c > Len(rows[1]) THEN <<>>
    ELSE <<CleanColumn(dates, Column(rows, c), algorithm)>>
         \o CleanColumns(dates, rows, c + 1, algorithm)

\* series.append((dstart, dend, values))
SeriesEntry(c) == [start |-> c.dstart, end |-> c.dend, values |-> c.values]

RECURSIVE SeriesOf(_)
SeriesOf(cols) ==
    IF cols = <<>> THEN <<>>
    ELSE <<SeriesEntry(Head(cols))>> \o SeriesOf(Tail(cols))

RECURSIVE FirstExc(_)
\* the exception that ends the column loops, if any
FirstExc(cols) ==
    IF cols = <<>> THEN "none"
    ELSE IF Head(cols).exc # "none" THEN Head(cols).exc
    ELSE FirstExc(Tail(cols))

RECURSIVE AllKeys(_)
\* all_dates = all_dates.union(values)
AllKeys(series) ==
    IF series = <<>> THEN {}
    ELSE DictKeys(Head(series).values) \cup AllKeys(Tail(series))

\* faulty variant: the window is open at its start
InWindowAfterStart(start, end, dt) ==
    start = None \/ (dt > start /\ dt <= end)

\* start is None or (dt >= start and dt <= end)
InWindow(start, end, dt) ==
    start = None \/ (dt >= start /\ dt <= end)

\* faulty variant: a key the map lacks reads as not-a-number
LookupOrNaN(values, dt) == DictGet(values, dt, NaN)

\* values.get(dt)
Lookup(values, dt) == DictGet(values, dt, None)

RECURSIVE Cross(_, _)
\* the row built for dt: cross = None and break at the first column that
\* is inside its window without a value
Cross(series, dt) ==
    IF series = <<>> THEN [some |-> TRUE, row |-> <<>>]
    ELSE LET e == Head(series)
             value == IF InWindow(e.start, e.end, dt)
                      THEN Lookup(e.values, dt) ELSE NaN
         IN  IF value = None THEN [some |-> FALSE, row |-> <<>>]
             ELSE LET rest == Cross(Tail(series), dt)
                  IN  [some |-> rest.some,
                       row |-> IF rest.some THEN <<value>> \o rest.row ELSE <<>>]

RECURSIVE Reconcile(_, _)
\* for dt in sorted(all_dates): ... if cross: cdate.append(dt); cdata.append(cross)
Reconcile(series, todo) ==
    IF todo = <<>> THEN [cdate |-> <<>>, cdata |-> <<>>]
    ELSE LET cross == Cross(series, Head(todo))
             rest == Reconcile(series, Tail(todo))
         IN  IF cross.some /\ cross.row # <<>>
             THEN [cdate |-> <<Head(todo)>> \o rest.cdate,
                   cdata |-> <<cross.row>> \o rest.cdata]
             ELSE rest

\* self.clone(date=cdate, data=cdata), read back through dates() and values()
ClonedSeries(cdate, cdata) ==
    LET w == Clone(EmptyWorld, "s", "t", ListArg(cdate), ListArg(cdata), TRUE)
    IN  [keys |-> Dates(w, "t"), rows |-> Values(w, "t")]

Clean(self, algorithm) ==
    LET cols == CleanColumns(self.keys, self.rows, 1, algorithm)
        exc == FirstExc(cols)
        series == SeriesOf(cols)
        rec == Reconcile(series, SortedSeq(AllKeys(series)))
    IN  IF exc # "none"
        THEN [status |-> exc, series |-> <<>>, ts |-> [keys |-> <<>>, rows |-> <<>>]]
        ELSE [status |-> "ok", series |-> series,
              ts |-> ClonedSeries(rec.cdate, rec.cdata)]

---------------------------------------------------------------------------
(* The clean specification: one call of clean on a two-column series with  *)
(* keys 1..n whose values may be missing.                                  *)

CleanMaxRows == 3

Observations == {NaN} \cup Vals

CleanRows == {<<u, v>> : u \in Observations, v \in Observations}

Algorithms == {"none", "ffill", "drop"}

CleanSeries ==
    UNION {{[keys |-> SortedSeq(1..n), rows |-> q] : q \in SeqsOf(CleanRows, n)}
           : n \in 1..CleanMaxRows}

CleanArgs ==
    {[op |-> "clean", self |-> ts, algorithm |-> a] :
        ts \in CleanSeries, a \in Algorithms}

InitClean ==
    /\ StoreIdle
    /\ ClassIdle
    /\ args \in CleanArgs
    /\ ret = NoReturn

\* self.clean(algorithm)
DoClean ==
    /\ args.op = "clean"
    /\ ret.status = "none"
    /\ ret' = Clean(args.self, args.algorithm)
    /\ UNCHANGED <<dateHeap, dataHeap, st, last, calls, log, args>>
    /\ UNCHANGED <<algorithms, registered, backend>>

NextClean == DoClean

SpecClean == InitClean /\ [][NextClean]_vars

CleanDone == args.op = "clean" /\ ret.status # "none"

NoMissing(ts) ==
    \A i \in 1..Len(ts.rows) : \A j \in 1..Len(ts.rows[i]) : ~IsNaN(ts.rows[i][j])

\* C7: clean, with any algorithm or none, of a non-empty series in which no
\* value is missing returns a series with the same keys and the same values.
C7_CleanIdempotent ==
    (CleanDone /\ NoMissing(args.self)) =>
        /\ ret.status = "ok"
        /\ ret.ts.keys = args.self.keys
        /\ ret.ts.rows = args.self.rows

\* a series of several rows without a missing value, cleaned with an
\* interpolation algorithm
C7_Witness ==
    /\ CleanDone
    /\ NoMissing(args.self)
    /\ args.algorithm = "ffill"
    /\ Len(args.self.keys) >= 2
    /\ ret.ts.rows = args.self.rows

\* the key has a value in the column's map
HasValue(e, k) == k \in DictKeys(e.values)

\* the key lies strictly outside the column's [valid_start, valid_end]; a
\* column without a valid value has no window to be outside of
OutsideWindow(e, k) == e.start # None /\ (k < e.start \/ k > e.end)

\* C8: a key of the union of the column maps is a row of the result exactly
\* when every column has a value at it or has it strictly outside its
\* window; a retained row holds the map's value where there is one and NaN
\* where the key is outside the window.
C8_RetentionRule ==
    (CleanDone /\ ret.status = "ok") =>
        LET series == ret.series
            res == ret.ts
            cols == 1..Len(series)
        IN  /\ Range(res.keys) \subseteq AllKeys(series)
            /\ StrictlyIncreasing(res.keys)
            /\ Len(res.rows) = Len(res.keys)
            /\ \A k \in AllKeys(series) :
                   (k \in Range(res.keys)) <=>
                   (\A c \in cols : HasValue(series[c], k) \/ OutsideWindow(series[c], k))
            /\ \A i \in 1..Len(res.keys) :
                   /\ Len(res.rows[i]) = Len(series)
                   /\ \A c \in cols :
                          res.rows[i][c] =
                              IF HasValue(series[c], res.keys[i])
                              THEN DictGet(series[c].values, res.keys[i], None)
                              ELSE NaN

\* one key is dropped for lying inside a column's window without a value,
\* and another is retained with NaN for lying outside a column's window
C8_Witness ==
    /\ CleanDone
    /\ ret.status = "ok"
    /\ \E k \in AllKeys(ret.series) : \E c \in 1..Len(ret.series) :
           /\ k \notin Range(ret.ts.keys)
           /\ ~HasValue(ret.series[c], k)
           /\ ~OutsideWindow(ret.series[c], k)
           /\ ret.series[c].start # None
    /\ \E i \in 1..Len(ret.ts.keys) : \E c \in 1..Len(ret.series) :
           /\ OutsideWindow(ret.series[c], ret.ts.keys[i])
           /\ IsNaN(ret.ts.rows[i][c])

\* column c of the series has, at key k, a missing value between two valid
\* values
InteriorGap(ts, c, k) ==
    /\ k \in 2..(Len(ts.keys) - 1)
    /\ IsNaN(ts.rows[k][c])
    /\ ~IsNaN(ts.rows[k - 1][c])
    /\ ~IsNaN(ts.rows[k + 1][c])

\* C9: with an algorithm that yields a pair for each buffered key, a value
\* missing between two valid values of a column is in the column's map, and
\* so in the result, with the value the algorithm yields for it.
C9_InterpolatedInMap ==
    (CleanDone /\ args.algorithm = "ffill") =>
        \A c \in 1..2 : \A k \in 1..Len(args.self.keys) :
            InteriorGap(args.self, c, k) =>
                /\ ret.status = "ok"
                /\ Lookup(ret.series[c].values, args.self.keys[k])
                       = args.self.rows[k - 1][c]

\* C10: buffering a missing observation seen after the column's
\* valid_start never fails.
C10_BufferingNeverFails ==
    (CleanDone /\ args.algorithm # "none") => ret.status = "ok"

\* column c of the series has no valid value at all
AllMissing(ts, c) == \A i \in 1..Len(ts.rows) : IsNaN(ts.rows[i][c])

\* C19: if some column has no valid value, clean returns an empty series,
\* whatever the other columns hold and whatever algorithm is given.
C19_AllMissingColumnEmpties ==
    (CleanDone /\ \E c \in 1..2 : AllMissing(args.self, c)) =>
        /\ ret.status = "ok"
        /\ ret.ts.keys = <<>>
        /\ ret.ts.rows = <<>>

---------------------------------------------------------------------------
(* Names.  A name a function reads that is neither a local nor bound at   *)
(* the top of its module raises NameError when the statement is run.      *)

\* the names bound at the top of dynts/api/timeseries.py
TimeseriesGlobals ==
    {"np", "laggeddates", "ashash", "asbtree", "asarray", "Data", "operators",
     "DyntsException", "NotAvailable", "nan", "ops", "ts_bin_op",
     "object_type", "is_timeseries", "BACKENDS", "TSmeta", "TimeSeries"}

\* the names bound at the top of dynts/backends/np.py
NumpyGlobals ==
    {"np", "TimeSeries", "is_timeseries", "Skiplist", "asarray", "arraytype",
     "nan", "_functions", "days", "Numpy"}

Bound(globals, name) == name \in globals

\* precondition(precond, errorclass): the exception raised, if any
precondition(precond, errorclass) == IF ~precond THEN errorclass ELSE "none"

\* the outcome of a call that raises
Raise(exc) == [status |-> exc, ts |-> [keys |-> <<>>, rows |-> <<>>]]

\* the outcome of a call that returns a series
Return(ts) == [status |-> "ok", ts |-> ts]

---------------------------------------------------------------------------
(* TimeSeries.apply and Numpy._rollapply *)

\* default_align = 'right'
default_align == "right"

\* the built-in aliases of _functions that the model computes, and a name
\* that is not an alias
Functions == {"min", "max", "sum"}

RECURSIVE SeqMin(_)
SeqMin(q) == IF Len(q) = 1 THEN q[1] ELSE Min(q[1], SeqMin(Tail(q)))

RECURSIVE SeqMax(_)
SeqMax(q) == IF Len(q) = 1 THEN q[1] ELSE Max(q[1], SeqMax(Tail(q)))

RECURSIVE SeqSum(_)
SeqSum(q) == IF q = <<>> THEN 0 ELSE q[1] + SeqSum(Tail(q))

\* func applied to one window of one column
ApplyFunc(func, q) ==
    IF func = "min" THEN SeqMin(q)
    ELSE IF func = "max" THEN SeqMax(q)
    ELSE SeqSum(q)

RECURSIVE WindowRow(_, _, _, _, _)
\* the row of window j (0-based): func per column, columns c..
WindowRow(rows, func, j, window, c) ==
    IF c > Len(rows[1]) THEN <<>>
    ELSE <<ApplyFunc(func, SubSeq(Column(rows, c), j + 1, j + window))>>
         \o WindowRow(rows, func, j, window, c + 1)

\* the key that labels window j (0-based)
WindowKey(keys, j, window, align) ==
    IF align = "left" THEN keys[j + 1]
    ELSE IF align = "centered" THEN keys[j + (window \div 2) + 1]
    ELSE keys[j + window]

RECURSIVE rollsingle(_, _, _, _, _)
\* the windows j.. of the series
rollsingle(self, func, window, align, j) ==
    IF j + window > Len(self.rows) THEN [keys |-> <<>>, rows |-> <<>>]
    ELSE LET rest == rollsingle(self, func, window, align, j + 1)
         IN  [keys |-> <<WindowKey(self.keys, j, window, align)>> \o rest.keys,
              rows |-> <<WindowRow(self.rows, func, j, window, 1)>> \o rest.rows]

\* Numpy._rollapply
RollApply(self, func, window, bycolumn, align) ==
    IF bycolumn
    THEN IF ~Bound(NumpyGlobals, "rollsingle") THEN Raise("NameError")
         ELSE Return(rollsingle(self, func, window, align, 0))
    ELSE Raise("NotImplementedError")

\* window or N: 0 is as false as None
WindowOrN(hasWindow, window, N) ==
    IF ~hasWindow \/ window = 0 THEN N ELSE window

\* TimeSeries.apply.  The arguments of self.precondition(...) are evaluated
\* before it is called.
Apply(self, func, hasWindow, window0, bycolumn, align) ==
    LET N == Len(self.rows)
        window == WindowOrN(hasWindow, window0, N)
    IN  IF ~Bound(TimeseriesGlobals, "DyntsOutOfBound") THEN Raise("NameError")
        ELSE IF precondition(window <= N /\ window > 0, "DyntsOutOfBound") # "none"
        THEN Raise("DyntsOutOfBound")
        ELSE RollApply(self, func, window, bycolumn,
                       IF align = "none" THEN default_align ELSE align)

---------------------------------------------------------------------------
(* The apply specification: one call of apply on a one-column series with *)
(* keys 1..n.                                                              *)

ApplyMaxRows == 2

ApplySeries ==
    UNION {{[keys |-> SortedSeq(1..n), rows |-> q] : q \in SeqsOf(Rows, n)}
           : n \in 0..ApplyMaxRows}

ApplyArgs ==
    {[op |-> "apply", self |-> ts, func |-> f, hasWindow |-> h, window |-> w,
      bycolumn |-> b, align |-> a] :
        ts \in ApplySeries, f \in Functions, h \in BOOLEAN,
        w \in (0 - 1)..(ApplyMaxRows + 1), b \in BOOLEAN,
        a \in {"none", "left", "right", "centered"}}

InitApply ==
    /\ StoreIdle
    /\ ClassIdle
    /\ args \in {x \in ApplyArgs : ~x.hasWindow => x.window = 0}
    /\ ret = NoReturn

\* self.apply(func, window, bycolumn, align)
DoApply ==
    /\ args.op = "apply"
    /\ ret.status = "none"
    /\ ret' = Apply(args.self, args.func, args.hasWindow, args.window,
                    args.bycolumn, args.align)
    /\ UNCHANGED <<dateHeap, dataHeap, st, last, calls, log, args>>
    /\ UNCHANGED <<algorithms, registered, backend>>

NextApply == DoApply

SpecApply == InitApply /\ [][NextApply]_vars

ApplyDone == args.op = "apply" /\ ret.status # "none"

\* the window is supplied and lies in 1..N
WindowInBounds ==
    args.hasWindow /\ args.window > 0 /\ args.window <= Len(args.self.rows)

\* the window is supplied and lies outside 1..N
WindowOutOfBounds ==
    args.hasWindow /\ (args.window <= 0 \/ args.window > Len(args.self.rows))

\* C11: apply fails with a bounds error for every supplied window w with
\* w <= 0 or w > N, and raises no bounds error for 0 < w <= N.
C11_WindowValidated ==
    ApplyDone =>
        /\ WindowOutOfBounds => ret.status = "DyntsOutOfBound"
        /\ WindowInBounds => ret.status # "DyntsOutOfBound"

\* C12: apply by column with 0 < w <= N returns N - w + 1 rows; row j is
\* func over values[j .. j+w-1] and its key is keys[j+w-1] for 'right' (the
\* default), keys[j] for 'left' and keys[j + w div 2] for 'centered'.
C12_RollingRows ==
    (ApplyDone /\ args.bycolumn /\ WindowInBounds) =>
        LET N == Len(args.self.rows)
            w == args.window
        IN  /\ ret.status = "ok"
            /\ Len(ret.ts.keys) = N - w + 1
            /\ Len(ret.ts.rows) = N - w + 1
            /\ \A j \in 0..(N - w) :
                   /\ ret.ts.rows[j + 1] =
                          <<ApplyFunc(args.func,
                                      SubSeq(Column(args.self.rows, 1), j + 1, j + w))>>
                   /\ ret.ts.keys[j + 1] =
                          args.self.keys[IF args.align = "left" THEN j + 1
                                         ELSE IF args.align = "centered"
                                         THEN j + (w \div 2) + 1
                                         ELSE j + w]

\* C18: apply with bycolumn false fails with a not-implemented error for
\* every window in bounds, and with the bounds error when the window is out
\* of bounds.
C18_ByRowNotImplemented ==
    (ApplyDone /\ ~args.bycolumn) =>
        /\ WindowInBounds => ret.status = "NotImplementedError"
        /\ WindowOutOfBounds => ret.status = "DyntsOutOfBound"

---------------------------------------------------------------------------
(* Numpy.delta *)

RECURSIVE RowMinus(_, _)
\* elementwise difference of two rows
RowMinus(a, b) ==
    IF a = <<>> \/ b = <<>> THEN <<>>
    ELSE <<Head(a) - Head(b)>> \o RowMinus(Tail(a), Tail(b))

RECURSIVE RowsMinus(_, _)
\* self._data[lag:] - self._data[:-lag], row by row
RowsMinus(a, b) ==
    IF a = <<>> \/ b = <<>> THEN <<>>
    ELSE <<RowMinus(Head(a), Head(b))>> \o RowsMinus(Tail(a), Tail(b))

\* Numpy.delta.  The arguments of self.precondition(...) are evaluated
\* before it is called.
Delta(self, lag) ==
    LET N == Len(self.rows)
    IN  IF ~Bound(NumpyGlobals, "dynts") THEN Raise("NameError")
        ELSE IF precondition(lag < N /\ lag > 0, "DyntsOutOfBound") # "none"
        THEN Raise("DyntsOutOfBound")
        ELSE LET v == RowsMinus(PySlice(self.rows, lag, N),
                                PySlice(self.rows, 0, 0 - lag))
             IN  Return([keys |-> PySlice(self.keys, lag, N), rows |-> v])

---------------------------------------------------------------------------
(* The delta specification: one call of delta on a one-column series with *)
(* keys 1..n.                                                              *)

DeltaMaxRows == 3

DeltaSeries ==
    UNION {{[keys |-> SortedSeq(1..n), rows |-> q] : q \in SeqsOf(Rows, n)}
           : n \in 0..DeltaMaxRows}

DeltaArgs ==
    {[op |-> "delta", self |-> ts, lag |-> l] :
        ts \in DeltaSeries, l \in (0 - 1)..(DeltaMaxRows + 1)}

InitDelta ==
    /\ StoreIdle
    /\ ClassIdle
    /\ args \in DeltaArgs
    /\ ret = NoReturn

\* self.delta(lag)
DoDelta ==
    /\ args.op = "delta"
    /\ ret.status = "none"
    /\ ret' = Delta(args.self, args.lag)
    /\ UNCHANGED <<dateHeap, dataHeap, st, last, calls, log, args>>
    /\ UNCHANGED <<algorithms, registered, backend>>

NextDelta == DoDelta

SpecDelta == InitDelta /\ [][NextDelta]_vars

DeltaDone == args.op = "delta" /\ ret.status # "none"

\* C13: delta(lag) fails with a bounds error when lag <= 0 or lag >= N; for
\* 0 < lag < N it returns N - lag rows with keys keys[lag:] and
\* result[i] = value[i+lag] - value[i].
C13_DeltaLaw ==
    DeltaDone =>
        LET N == Len(args.self.rows)
            lag == args.lag
        IN  IF lag <= 0 \/ lag >= N
            THEN ret.status = "DyntsOutOfBound"
            ELSE /\ ret.status = "ok"
                 /\ ret.ts.keys = SubSeq(args.self.keys, lag + 1, N)
                 /\ Len(ret.ts.rows) = N - lag
                 /\ \A i \in 1..(N - lag) :
                        ret.ts.rows[i] =
                            <<args.self.rows[i + lag][1] - args.self.rows[i][1]>>

---------------------------------------------------------------------------
(* The algorithm registry: TimeSeries.getalgo, register_algorithm, reduce *)

Operations == {"reduce", "clean"}

Names == {"simple", "other"}

\* what a caller may hand to register_algorithm: two callables, which trim
\* a series to its first or to its last size rows, and a string
Callables == {"head", "tail"}

NonCallables == {"text"}

\* faulty variant: anything is taken for a callable
IsCallableAny(x) == TRUE

\* hasattr(callable, '__call__')
IsCallable(x) == x \in Callables

\* the outcome of getalgo: the callable returned, or the exception raised
getalgo(algs, operation, name) ==
    IF operation \notin DictKeys(algs)
    THEN [status |-> "NotAvailable", value |-> "none"]
    ELSE LET oper == DictGet(algs, operation, {})
         IN  IF name \in DictKeys(oper)
             THEN [status |-> "ok", value |-> DictGet(oper, name, "none")]
             ELSE [status |-> "NotAvailable", value |-> "none"]

\* the registry after register_algorithm(operation, name, callable)
register_algorithm(algs, operation, name, callable) ==
    IF IsCallable(callable)
    THEN LET algs1 == IF operation \notin DictKeys(algs)
                      THEN DictSet(algs, operation, {}) ELSE algs
             oper == DictGet(algs1, operation, {})
         IN  DictSet(algs1, operation, DictSet(oper, name, callable))
    ELSE algs

\* a registered callable called as f(self, size)
CallAlgorithm(f, self, size) ==
    IF f = "head"
    THEN [keys |-> PySlice(self.keys, 0, size), rows |-> PySlice(self.rows, 0, size)]
    ELSE [keys |-> PySlice(self.keys, Len(self.keys) - size, Len(self.keys)),
          rows |-> PySlice(self.rows, Len(self.rows) - size, Len(self.rows))]

\* faulty variant: a series of exactly size rows is trimmed too
ReduceKeepsLarger(size, N) == size > N

\* size >= len(self)
ReduceKeeps(size, N) == size >= N

\* TimeSeries.reduce: is_self tells that the object returned is self
Reduce(algs, self, size, method) ==
    IF ReduceKeeps(size, Len(self.rows))
    THEN [status |-> "ok", ts |-> self, is_self |-> TRUE]
    ELSE LET algo == getalgo(algs, "reduce", method)
         IN  IF algo.status # "ok"
             THEN [status |-> algo.status,
                   ts |-> [keys |-> <<>>, rows |-> <<>>], is_self |-> FALSE]
             ELSE [status |-> "ok", ts |-> CallAlgorithm(algo.value, self, size),
                   is_self |-> FALSE]

---------------------------------------------------------------------------
(* The registry specification: any sequence of register_algorithm,        *)
(* getalgo and reduce calls, the last on a one-column series.             *)

RegistryMaxRows == 2

RegistrySeries ==
    UNION {{[keys |-> SortedSeq(1..n), rows |-> q] : q \in SeqsOf(Rows, n)}
           : n \in 0..RegistryMaxRows}

InitRegistry ==
    /\ StoreIdle
    /\ ClassIdle
    /\ args \in {[op |-> "none", self |-> ts] : ts \in RegistrySeries}
    /\ ret = NoReturn

\* TimeSeries.register_algorithm(operation, name, x)
RegisterCall(operation, name, x) ==
    /\ algorithms' = register_algorithm(algorithms, operation, name, x)
    /\ registered' = IF x \in Callables
                     THEN DictSet(registered, <<operation, name>>, x)
                     ELSE registered
    /\ args' = [op |-> "register_algorithm", self |-> args.self,
                operation |-> operation, name |-> name, callable |-> x]
    /\ ret' = [status |-> "ok", value |-> "none"]
    /\ UNCHANGED <<dateHeap, dataHeap, st, last, calls, log, backend>>

RegisterAlgorithm ==
    \E operation \in Operations, name \in Names, x \in Callables \cup NonCallables :
        RegisterCall(operation, name, x)

\* self.getalgo(operation, name)
GetAlgo ==
    \E operation \in Operations, name \in Names :
        /\ args' = [op |-> "getalgo", self |-> args.self,
                    operation |-> operation, name |-> name]
        /\ ret' = getalgo(algorithms, operation, name)
        /\ UNCHANGED <<dateHeap, dataHeap, st, last, calls, log, algorithms,
                       registered, backend>>

\* self.reduce(size, method)
ReduceCall ==
    \E size \in 0..(RegistryMaxRows + 1), method \in Names :
        /\ args' = [op |-> "reduce", self |-> args.self, size |-> size,
                    method |-> method]
        /\ ret' = Reduce(algorithms, args.self, size, method)
        /\ UNCHANGED <<dateHeap, dataHeap, st, last, calls, log, algorithms,
                       registered, backend>>

NextRegistry ==
    \/ RegisterAlgorithm
    \/ GetAlgo
    \/ ReduceCall

SpecRegistry == InitRegistry /\ [][NextRegistry]_vars

\* the callable last registered under (operation, name), if any
LastRegistered(operation, name) ==
    IF <<operation, name>> \in DictKeys(registered)
    THEN [status |-> "ok", value |-> DictGet(registered, <<operation, name>>, "none")]
    ELSE [status |-> "NotAvailable", value |-> "none"]

\* C14: reduce with size >= len(self) returns self itself, for every method,
\* registered or not; with size < len(self) it returns what the registered
\* 'reduce' algorithm named method returns, or fails with not-available.
C14_ReduceIdentity ==
    (args.op = "reduce") =>
        IF args.size >= Len(args.self.rows)
        THEN /\ ret.status = "ok"
             /\ ret.is_self
             /\ ret.ts = args.self
        ELSE LET algo == LastRegistered("reduce", args.method)
             IN  IF algo.status = "ok"
                 THEN /\ ret.status = "ok"
                      /\ ret.ts = CallAlgorithm(algo.value, args.self, args.size)
                 ELSE ret.status = "NotAvailable"

\* reduce of a series of at least one row to its own length, under a method
\* name nobody registered
C14_Witness ==
    /\ args.op = "reduce"
    /\ args.size = Len(args.self.rows)
    /\ args.size >= 1
    /\ LastRegistered("reduce", args.method).status = "NotAvailable"
    /\ ret.is_self

\* C15: getalgo(operation, name) returns the callable most recently
\* registered under (operation, name) and fails with not-available exactly
\* when none ever was; a registration of something not callable changes
\* nothing, and creates no table for its operation.
C15_RegistryLookup ==
    /\ \A operation \in Operations, name \in Names :
           getalgo(algorithms, operation, name) = LastRegistered(operation, name)
    /\ DictKeys(algorithms) = {k[1] : k \in DictKeys(registered)}
    /\ (args.op = "getalgo") => ret = LastRegistered(args.operation, args.name)

\* something not callable was just registered under a pair that holds a
\* callable, while the other operation has no table
C15_Witness ==
    /\ args.op = "register_algorithm"
    /\ args.callable \in NonCallables
    /\ LastRegistered(args.operation, args.name).status = "ok"
    /\ \E operation \in Operations : operation \notin DictKeys(algorithms)

---------------------------------------------------------------------------
(* The flot formatter: ToFlot.__call__ and TimeSeries.named_series *)

\* the names bound in dynts/formatters/__init__.py when the statement
\* class ToFlot(BaseFormatter) is run
FormattersGlobals ==
    {"csv", "zip", "StreamIO", "FormattingException", "istimeseries",
     "asarray", "settings", "flot", "default_converter", "nanvalue",
     "full_clean"}

\* flot.pydate2flot: a date as the time value flot plots
pydate2flot(dt) == dt * 1000

\* settings.ismissing
ismissing(val) == IsNaN(val)

\* flot.MultiPlot()
MultiPlot == [type |-> "multiplot", plots |-> <<>>]

RECURSIVE Remove(_, _)
\* the sequence without its entries equal to v
Remove(q, v) ==
    IF q = <<>> THEN <<>>
    ELSE (IF Head(q) = v THEN <<>> ELSE <<Head(q)>>) \o Remove(Tail(q), v)

RECURSIVE Ordered(_, _)
\* the names in the order named_series yields them: those of ordering that
\* are still to do, then the rest
Ordered(ordering, todo) ==
    IF ordering = <<>> THEN todo
    ELSE IF Head(ordering) \in Range(todo)
    THEN <<Head(ordering)>> \o Ordered(Tail(ordering), Remove(todo, Head(ordering)))
    ELSE Ordered(Tail(ordering), todo)

RECURSIVE NamedColumns(_, _)
NamedColumns(ts, names) ==
    IF names = <<>> THEN <<>>
    ELSE <<[name |-> Head(names),
            serie |-> Column(ts.rows, Position(ts.names, Head(names)))]>>
         \o NamedColumns(ts, Tail(names))

\* TimeSeries.named_series(ordering)
named_series(ts, ordering) == NamedColumns(ts, Ordered(ordering, ts.names))

RECURSIVE SerieData(_, _)
\* the points [pydate2flot(dt), val] of the observations that are not missing
SerieData(dates, serie) ==
    IF dates = <<>> \/ serie = <<>> THEN <<>>
    ELSE (IF ~ismissing(Head(serie))
          THEN <<<<pydate2flot(Head(dates)), Head(serie)>>>> ELSE <<>>)
         \o SerieData(Tail(dates), Tail(serie))

RECURSIVE FlotSeries(_, _)
\* res.add(flot.Serie(label = name, data = data)) for each named serie
FlotSeries(dates, named) ==
    IF named = <<>> THEN <<>>
    ELSE <<[label |-> Head(named).name,
            data |-> SerieData(dates, Head(named).serie)]>>
         \o FlotSeries(dates, Tail(named))

\* ToFlot.__call__(ts, container, ordering).  The class statement of ToFlot
\* names its base BaseFormatter.
ToFlot(ts, hasContainer, container, ordering) ==
    IF ~Bound(FormattersGlobals, "BaseFormatter")
    THEN [status |-> "NameError", result |-> MultiPlot]
    ELSE LET result == IF hasContainer THEN container ELSE MultiPlot
             res == [type |-> "timeseries",
                     series |-> FlotSeries(ts.keys, named_series(ts, ordering))]
         IN  [status |-> "ok",
              result |-> [type |-> result.type,
                          plots |-> result.plots \o <<res>>]]

---------------------------------------------------------------------------
(* The formatter specification: one call of the flot formatter on a       *)
(* two-column series with keys 1..n whose values may be missing.          *)

FlotMaxRows == 2

FlotNames == <<"YHOO", "GOOG">>

FlotInputs ==
    UNION {{[keys |-> SortedSeq(1..n), rows |-> q, names |-> FlotNames]
            : q \in SeqsOf(CleanRows, n)} : n \in 1..FlotMaxRows}

\* a container that holds a plot already
UsedContainer ==
    [type |-> "multiplot", plots |-> <<[type |-> "xy", series |-> <<>>]>>]

FlotArgs ==
    {[op |-> "flot", self |-> ts, hasContainer |-> h,
      container |-> IF h THEN UsedContainer ELSE MultiPlot, ordering |-> o] :
        ts \in FlotInputs, h \in BOOLEAN,
        o \in {<<>>, <<"GOOG">>, <<"GOOG", "YHOO">>, <<"AMZN", "GOOG">>}}

InitFlot ==
    /\ StoreIdle
    /\ ClassIdle
    /\ args \in FlotArgs
    /\ ret = NoReturn

\* ts.dump('flot', container, ordering)
DoFlot ==
    /\ args.op = "flot"
    /\ ret.status = "none"
    /\ ret' = ToFlot(args.self, args.hasContainer, args.container, args.ordering)
    /\ UNCHANGED <<dateHeap, dataHeap, st, last, calls, log, args>>
    /\ UNCHANGED <<algorithms, registered, backend>>

NextFlot == DoFlot

SpecFlot == InitFlot /\ [][NextFlot]_vars

FlotDone == args.op = "flot" /\ ret.status # "none"

\* the keys at which column c has a value
ObservedKeys(ts, c) ==
    {ts.keys[i] : i \in {j \in 1..Len(ts.keys) : ~IsNaN(ts.rows[j][c])}}

\* C16: the flot formatter adds exactly one plot of type 'timeseries' to the
\* container, with one series per column label, each holding one point per
\* date at which the column's value is not missing, in date order.
C16_FlotOnePlot ==
    FlotDone =>
        /\ ret.status = "ok"
        /\ Len(ret.result.plots) = Len(args.container.plots) + 1
        /\ LET plot == ret.result.plots[Len(ret.result.plots)]
           IN  /\ plot.type = "timeseries"
               /\ Len(plot.series) = Len(args.self.names)
               /\ {plot.series[i].label : i \in 1..Len(plot.series)}
                      = Range(args.self.names)
               /\ \A i \in 1..Len(plot.series) :
                      LET c == Position(args.self.names, plot.series[i].label)
                          data == plot.series[i].data
                      IN  /\ Len(data) = Cardinality(ObservedKeys(args.self, c))
                          /\ StrictlyIncreasing(Firsts(data))

---------------------------------------------------------------------------
(* The conversion hook specification: under either backend, series s is   *)
(* made from (key, row) pairs and the same pairs are inserted, in any     *)
(* order, into the empty series t.                                        *)

InitHooks ==
    /\ backend \in Backends
    /\ algorithms = {}
    /\ registered = {}
    /\ \E in \in ConsistentInputs :
            LET w == Collect(Make(EmptyWorld, "s", ListArg(in.keys),
                                  ListArg(in.rows), FALSE))
            IN  /\ dateHeap = w.dh
                /\ dataHeap = w.vh
                /\ st = w.st
                /\ args = [op |-> "build", keys |-> in.keys, rows |-> in.rows,
                           todo |-> 1..Len(in.keys)]
    /\ last = Call("make", "s", "none")
    /\ calls = [s |-> "make", t |-> "inserts"]
    /\ log = [s |-> NoLog, t |-> NoLog]
    /\ ret = NoReturn

\* t.insert(key, row) for a pair not yet inserted
InsertPair ==
    \E i \in args.todo :
        LET r == Insert(World, "t", args.keys[i], args.rows[i])
        IN  /\ args.op = "build"
            /\ Running
            /\ Commit(r.w)
            /\ last' = Call("insert", "t", r.exc)
            /\ args' = [args EXCEPT !.todo = @ \ {i}]
            /\ UNCHANGED <<calls, log, ret, algorithms, registered, backend>>

NextHooks == InsertPair

SpecHooks == InitHooks /\ [][NextHooks]_vars

\* C17: a series built by make and a series built by inserting the same
\* (key, row) pairs hold the same stored keys, for any conversion hook.
C17_MakeConvertsLikeInsert ==
    (args.op = "build" /\ args.todo = {} /\ Running) =>
        Dates(World, "s") = Dates(World, "t")

====
